---------------------------- MODULE Spec2Model ----------------------------
(***************************************************************************)
(* Session cache, route guard and OTP countdown of the PSS front-end.     *)
(*                                                                         *)
(* Spec     : the session machine (user probe, "user" query cache, login, *)
(*            logout, profile update, routes and their guards).            *)
(* SpecOtp  : the forgot-password flow and the OTP countdown of the OTP    *)
(*            verification modals; SpecOtpLive adds that set timers fire.  *)
(* SpecApi  : one form handler from its call of a mutation (apiFetch, the  *)
(*            retryer) to what the user is shown.                          *)
(* SpecPwd  : the change-password dialog of the profile page, from the     *)
(*            fields typed to the request sent.                            *)
(***************************************************************************)
EXTENDS Integers, FiniteSets, Sequences, TLC

VARIABLES
    flag,      \* localStorage.getItem("isLoggedIn") is set
    query,     \* state of the ["auth","user"] query: data, status, fetchStatus, isInvalidated
    enabled,   \* the `enabled` option the mounted useUser observers got at their last render
    probes,    \* GET /api/auth/user requests on the network
    account,   \* role of the account the person at this browser owns
    session,   \* the server's session for this browser (cookie)
    path,      \* current location of the router
    login,     \* position of Login.handleSubmit
    logout,    \* position of Header.handleLogout
    profile,   \* position of Profile.handleSaveProfile
    ev,        \* the last step taken (history)
    loggedOut, \* a logout succeeded and the server accepted no login after it (history)
    otp,       \* the mounted OTP modal, if any
    api,       \* the request of one form handler, from its call to what the user is shown
    pwd,       \* the change-password dialog of the profile page
    header     \* position of the finally block of Header.handleLogout (history)

vars == <<flag, query, enabled, probes, account, session, path, login, logout, profile, ev, loggedOut, otp, api, pwd, header>>

authVars == <<flag, query, enabled, probes, account, session, path, login, logout, profile, loggedOut, header>>

(***************************************************************************)
(* Bounds                                                                  *)
(***************************************************************************)
\* most GET /api/auth/user requests on the network at once
MaxInFlight == 2
\* longest OTP countdown explored, in seconds
MaxSeconds == 5
\* most OTP challenges followed in one visit of the forgot-password flow
MaxChallenges == 2
\* most change-password requests followed in one visit of the dialog
MaxChanges == 2

(***************************************************************************)
(* Values                                                                  *)
(***************************************************************************)
Roles == {"user", "admin", "analyst"}
Null == "null"
Undefined == "undefined"
NoSession == "none"
UserEndpoint == "/api/auth/user"

\* HTTP responses: status, the user of a 200 probe body, the body's message.
\* body: "json" (an object with a message), "noMessage" (an object without one, or
\* with an empty one), "notJson", "network" (fetch failed, there is no response)
Response(st, u, m) == [status |-> st, user |-> u, message |-> m, body |-> "json"]
Ok200(u) == Response(200, u, "ok")
Unauthorized == Response(401, "none", "Unauthorized")
ServerError == Response(500, "none", "Internal error")

\* `!!user`
IsLoggedIn(user) == user \in Roles

\* `HTTP error! status: ${response.status}`
HttpError(st) ==
    CASE st = 400 -> "HTTP error! status: 400"
      [] st = 401 -> "HTTP error! status: 401"
      [] st = 403 -> "HTTP error! status: 403"
      [] st = 404 -> "HTTP error! status: 404"
      [] st = 409 -> "HTTP error! status: 409"
      [] st = 500 -> "HTTP error! status: 500"
      [] OTHER -> "HTTP error! status: other"

\* an Error that carries the message field whatever the body is
ErrorMessage_MessageOnly(response) == response.message

\* the message of the Error apiFetch throws for a non-2xx response
ErrorMessage(response) ==
    IF response.body = "network" THEN "Failed to fetch"
    ELSE IF response.body = "notJson" THEN "Something went wrong"
    ELSE IF response.body = "noMessage" THEN HttpError(response.status)
    ELSE response.message

\* apiFetch without the special case of the user endpoint
apiFetch_No401Case(endpoint, response) ==
    IF ~(response.status >= 200 /\ response.status <= 299)
    THEN [kind |-> "reject", value |-> ErrorMessage(response)]
    ELSE IF response.body = "notJson"
         THEN [kind |-> "reject", value |-> "Unexpected end of JSON input"]
         ELSE [kind |-> "resolve",
               value |-> IF endpoint = UserEndpoint THEN response.user
                         ELSE response.message]

(***************************************************************************)
(* apiFetch: what the promise settles to for a response                    *)
(***************************************************************************)
apiFetch(endpoint, response) ==
    IF ~(response.status >= 200 /\ response.status <= 299)
    THEN IF endpoint = UserEndpoint /\ response.status = 401
         THEN [kind |-> "resolve", value |-> Null]
         ELSE [kind |-> "reject", value |-> ErrorMessage(response)]
    ELSE IF response.body = "notJson"
         THEN [kind |-> "reject", value |-> "Unexpected end of JSON input"]
         ELSE [kind |-> "resolve",
               value |-> IF endpoint = UserEndpoint THEN response.user
                         ELSE response.message]

\* queryFn that leaves the flag when the probe finds no session
queryFn_KeepsFlag(response) ==
    LET r == apiFetch(UserEndpoint, response) IN
    [kind |-> r.kind, value |-> r.value, removesFlag |-> FALSE]

\* queryFn of useUser: the result for the query and whether it removed the flag
queryFn(response) ==
    LET r == apiFetch(UserEndpoint, response) IN
    IF r.kind = "reject"
    THEN [kind |-> "reject", value |-> r.value, removesFlag |-> FALSE]
    ELSE IF r.value = Null
         THEN [kind |-> "resolve", value |-> Null, removesFlag |-> TRUE]
         ELSE [kind |-> "resolve", value |-> r.value, removesFlag |-> FALSE]


(***************************************************************************)
(* The query cache entry ["auth","user"] (useQuery in useUser)             *)
(***************************************************************************)
NoResponse == Response(0, "none", "none")
NoRequest == [state |-> "none", resp |-> NoResponse]
SentRequest == [state |-> "sent", resp |-> NoResponse]
Answered(r) == [state |-> "answered", resp |-> r]

FreshQuery == [data |-> Undefined, status |-> "pending",
               fetchStatus |-> "idle", isInvalidated |-> FALSE]
\* cur: the request of the running fetch; sent, r401, done: requests of fetches
\* that were cancelled, not yet answered, answered 401, answered otherwise
NoProbes == [cur |-> NoRequest, sent |-> 0, r401 |-> 0, done |-> 0]
IdleHandler == [pc |-> "idle"]

InFlight(p) == (IF p.cur.state = "none" THEN 0 ELSE 1) + p.sent + p.r401 + p.done

\* `isLoading` of the query result: no data yet and a fetch running
isLoading(q) == q.status = "pending" /\ q.fetchStatus = "fetching"

\* `await fetchUser()` of Login.handleSubmit continues when the fetch it waits
\* for ends (settled or cancelled)
FetchEnded(l) == IF l.pc = "awaitFetch" THEN [l EXCEPT !.pc = "fetched"] ELSE l

\* a cancelled fetch: its request stays on the network (apiFetch passes no signal)
Cancelled(p) ==
    [cur |-> NoRequest,
     sent |-> p.sent + (IF p.cur.state = "sent" THEN 1 ELSE 0),
     r401 |-> p.r401 + (IF p.cur.state = "answered" /\ queryFn(p.cur.resp).removesFlag
                        THEN 1 ELSE 0),
     done |-> p.done + (IF p.cur.state = "answered" /\ ~queryFn(p.cur.resp).removesFlag
                        THEN 1 ELSE 0)]

\* s is a record [q: query, p: probes, l: login]
StartFetch(s) ==
    [q |-> [s.q EXCEPT !.fetchStatus = "fetching",
                       !.status = IF s.q.data = Undefined THEN "pending" ELSE @],
     p |-> [s.p EXCEPT !.cur = SentRequest],
     l |-> s.l]

\* Query.fetch: a fetch that is running is joined, unless cancelRefetch is set and
\* the query has data, when it is cancelled and a new one started
Fetch(s, cancelRefetch) ==
    IF s.q.fetchStatus = "fetching"
    THEN IF s.q.data # Undefined /\ cancelRefetch
         THEN StartFetch([q |-> s.q, p |-> Cancelled(s.p), l |-> FetchEnded(s.l)])
         ELSE s
    ELSE StartFetch(s)

\* a refetch that does nothing
refetch_Nothing(s) == s

\* observer.refetch(): ignores `enabled`, cancelRefetch defaults to true
refetch(s) == Fetch(s, TRUE)

\* a setQueryData that leaves the entry as it is
setQueryData_Keeps(s, v) == s

\* queryClient.setQueryData(authKeys.user(), v)
setQueryData(s, v) ==
    [s EXCEPT !.q = [@ EXCEPT !.data = v, !.status = "success", !.isInvalidated = FALSE]]

\* queryClient.invalidateQueries: marks the entry, refetches it when an enabled
\* observer is mounted
invalidateQueries(s, active) ==
    LET marked == [s EXCEPT !.q = [@ EXCEPT !.isInvalidated = TRUE]] IN
    IF active THEN Fetch(marked, TRUE) ELSE marked

Cur == [q |-> query, p |-> probes, l |-> login]

\* the render that follows a change of the cached data: the observers read
\* `enabled` again (f: the flag at that render); an observer that becomes enabled
\* fetches a stale entry
Rerendered(s, f) ==
    IF ~enabled /\ f /\ (s.q.data = Undefined \/ s.q.isInvalidated)
    THEN Fetch(s, FALSE) ELSE s

\* the last step, for the steps the properties speak about; Quiet for the others
\* (prev: the cached data before a probe settled)
Ev(t, c, r) == [type |-> t, cur |-> c, resp |-> r, prev |-> Undefined]
Quiet == Ev("step", FALSE, NoResponse)

(***************************************************************************)
(* Routes and their guards                                                 *)
(***************************************************************************)
Paths == {"/", "/register", "/dashboard", "/dashboard/auth/user",
          "/dashboard/auth/admin", "/login"}

Navigate(to) == [kind |-> "redirect", at |-> to]
Element(view) == [kind |-> "render", at |-> view]
Blank == [kind |-> "blank", at |-> "null"]

\* ProtectedRoute without the check of the role
ProtectedRoute_NoRoleCheck(role, q, outlet) ==
    IF isLoading(q) THEN Blank
    ELSE IF ~IsLoggedIn(q.data) THEN Navigate("/")
    ELSE Element(outlet)

\* ProtectedRoute that sends a visitor without session to the dashboard redirect
ProtectedRoute_ToDashboard(role, q, outlet) ==
    IF isLoading(q) THEN Blank
    ELSE IF ~IsLoggedIn(q.data) THEN Navigate("/dashboard")
    ELSE IF q.data # role /\ q.data # "admin" THEN Navigate("/")
    ELSE Element(outlet)

\* ProtectedRoute({ role }) around the element `outlet`
ProtectedRoute(role, q, outlet) ==
    IF isLoading(q) THEN Blank
    ELSE IF ~IsLoggedIn(q.data) THEN Navigate("/")
    ELSE IF q.data # role /\ q.data # "admin" THEN Navigate("/")
    ELSE Element(outlet)

DashboardRedirect(q) ==
    IF isLoading(q) THEN Blank
    ELSE IF q.data = "admin" THEN Navigate("/dashboard/auth/admin")
    ELSE IF q.data = "user" \/ q.data = "analyst" THEN Navigate("/dashboard/auth/user")
    ELSE Navigate("/")

\* <Routes> of App: what the location p renders
RouteElement(p, q) ==
    CASE p = "/" -> IF ~IsLoggedIn(q.data) THEN Element("Login") ELSE Navigate("/dashboard")
      [] p = "/register" -> Element("Register")
      [] p = "/dashboard" -> DashboardRedirect(q)
      [] p = "/dashboard/auth/user" -> ProtectedRoute("user", q, "Analyst")
      [] p = "/dashboard/auth/admin" -> ProtectedRoute("admin", q, "AdminDashboard")
      [] OTHER -> IF IsLoggedIn(q.data) THEN Navigate("/dashboard/auth/user")
                  ELSE Navigate("/")

Screen == RouteElement(path, query)

\* react-router follows <Navigate> after <Navigate> from the location p: the chain
\* reaches, within n redirects, a location that renders something else
RECURSIVE RedirectsEnd(_, _, _)
RedirectsEnd(p, q, n) ==
    LET element == RouteElement(p, q) IN
    IF element.kind # "redirect" THEN TRUE
    ELSE IF n = 0 THEN FALSE
    ELSE RedirectsEnd(element.at, q, n - 1)

(***************************************************************************)
(* Initial state: first load of the application, nothing stored            *)
(***************************************************************************)
\* the OTP modal: its React state (timeLeft, isExpired), its timers (intervals:
\* the setInterval timers not cleared, timeout), and what happened to the challenge (ticks fired, expiry notices shown,
\* expiry navigation, how it was closed and at what timeLeft)
\* verify: the verifyOtp request of handleVerify and whether the modal that sent it
\* is still the mounted one
\* request: the forget-password request of the parent's handleSubmit; modals: the
\* OTP modals mounted; started: the modals mounted so far; overlap: a modal was
\* mounted while another was
\* attempt: the last call of handleVerify in this modal: whether the countdown was
\* Expired when it was made and whether it sent a verifyOtp request
\* email: the email state of the forgot-password form; verify.email: the email of
\* the verifyOtp request; verified: the emails a verifyOtp request succeeded for
\* location: location.state.email of the mounted reset page ("away" when the
\* reset page is not mounted); resetPc, resetSent: the reset-password request and
\* the emails such requests were sent for; visited, bounced: /reset-password was
\* opened without navigation state, the email guard has redirected to /login
NoVerify == [pc |-> "idle", mine |-> FALSE, email |-> "none"]
NoAttempt == [made |-> FALSE, expired |-> FALSE, sent |-> FALSE]
NoOtp(v) == [open |-> FALSE, variant |-> v, initialSeconds |-> 0, timeLeft |-> 0,
             isExpired |-> FALSE, intervals |-> 0, timeout |-> FALSE, ticks |-> 0,
             notices |-> 0, navigated |-> FALSE, closedBy |-> "none", leftAtClose |-> 0,
             verify |-> NoVerify, reset |-> FALSE,
             request |-> "idle", modals |-> 0, started |-> 0, overlap |-> FALSE,
             attempt |-> NoAttempt, email |-> "none", verified |-> {},
             location |-> "away", resetPc |-> "idle", resetSent |-> {},
             visited |-> FALSE, bounced |-> FALSE]

\* no handler has called yet
NoCall == [site |-> "none", pc |-> "idle", resp |-> NoResponse, requests |-> 0,
           failureCount |-> 0, result |-> [kind |-> "none", value |-> "none"],
           mounted |-> FALSE, shown |-> "none"]

\* the fields of the change-password dialog, all empty
NoFields == [currentPassword |-> <<>>, newPassword |-> <<>>, confirmPassword |-> <<>>]

\* the change-password dialog: variant "modal" is PasswordChangeModal under
\* AccountActionsSection, variant "profile" the dialog inside Profile; passwordData;
\* pc: the position of the change-password request; requests: the requests sent;
\* body: the fields the last request was sent from
NoPwd == [variant |-> "modal", open |-> FALSE, passwordData |-> NoFields,
          pc |-> "idle", requests |-> 0, body |-> NoFields]

Init ==
    /\ flag = FALSE
    /\ query = FreshQuery
    /\ enabled = FALSE
    /\ probes = NoProbes
    /\ account \in Roles
    /\ session = NoSession
    /\ path = "/"
    /\ login = IdleHandler
    /\ logout = "idle"
    /\ profile = IdleHandler
    /\ ev = Quiet
    /\ loggedOut = FALSE
    /\ otp = NoOtp("pages")
    /\ api = NoCall
    /\ pwd = NoPwd
    /\ header = "idle"

Install(s) ==
    /\ query' = s.q
    /\ probes' = s.p
    /\ login' = s.l

(***************************************************************************)
(* Application load and rendering                                          *)
(***************************************************************************)
\* a load that mounts useUser and never fetches
PageLoad_NoProbe(p) ==
    LET fresh == [q |-> FreshQuery, p |-> NoProbes, l |-> IdleHandler] IN
    /\ Install(fresh)
    /\ enabled' = flag
    /\ path' = p
    /\ logout' = "idle"
    /\ profile' = IdleHandler
    /\ ev' = Ev("pageLoad", FALSE, NoResponse)
    /\ header' = "idle"
    /\ UNCHANGED <<account, flag, session, loggedOut, otp, api, pwd>>

\* (re)load of the page at location p: a new QueryClient, useUser mounts and
\* fetches when it is enabled
PageLoad(p) ==
    LET fresh == [q |-> FreshQuery, p |-> NoProbes, l |-> IdleHandler] IN
    /\ Install(IF flag THEN Fetch(fresh, FALSE) ELSE fresh)
    /\ enabled' = flag
    /\ path' = p
    /\ logout' = "idle"
    /\ profile' = IdleHandler
    /\ ev' = Ev("pageLoad", FALSE, NoResponse)
    /\ header' = "idle"
    /\ UNCHANGED <<account, flag, session, loggedOut, otp, api, pwd>>

\* a component using useUser renders or mounts: `enabled` is read again, and a
\* stale entry is fetched (staleTime elapsed: byTime)
Render(byTime) ==
    /\ InFlight(probes) < MaxInFlight
    /\ enabled' = flag
    /\ Install(IF flag /\ (query.data = Undefined \/ query.isInvalidated \/ byTime)
               THEN Fetch(Cur, FALSE) ELSE Cur)
    /\ ev' = Quiet
    /\ UNCHANGED <<account, flag, session, path, logout, profile, loggedOut, otp, api, pwd, header>>

\* react-router follows the <Navigate> the current location renders
FollowNavigate ==
    /\ Screen.kind = "redirect"
    /\ path' = Screen.at
    /\ ev' = Quiet
    /\ UNCHANGED <<account, flag, query, enabled, probes, session, login, logout, profile, loggedOut, otp, api, pwd, header>>

(***************************************************************************)
(* The user probe on the network                                           *)
(***************************************************************************)
\* the server answers a probe from the session it has at that moment
ProbeResponse == IF session = NoSession THEN Unauthorized ELSE Ok200(session)

ServerAnswersProbe(fail) ==
    /\ probes.cur.state = "sent"
    /\ probes' = [probes EXCEPT !.cur = Answered(IF fail THEN ServerError ELSE ProbeResponse)]
    /\ ev' = Quiet
    /\ UNCHANGED <<account, flag, query, enabled, session, path, login, logout, profile, loggedOut, otp, api, pwd, header>>

ServerAnswersCancelled ==
    /\ probes.sent > 0
    /\ probes' = [probes EXCEPT !.sent = @ - 1,
                                !.r401 = @ + (IF queryFn(ProbeResponse).removesFlag THEN 1 ELSE 0),
                                !.done = @ + (IF queryFn(ProbeResponse).removesFlag THEN 0 ELSE 1)]
    /\ ev' = Quiet
    /\ UNCHANGED <<account, flag, query, enabled, session, path, login, logout, profile, loggedOut, otp, api, pwd, header>>

\* the response of the running fetch arrives: queryFn continues, the query settles
\* and its result is rendered
ProbeSettles ==
    /\ probes.cur.state = "answered"
    /\ LET r == queryFn(probes.cur.resp)
           f == IF r.removesFlag THEN FALSE ELSE flag
           settled ==
               [q |-> IF r.kind = "resolve"
                      THEN [query EXCEPT !.data = r.value, !.status = "success",
                                         !.fetchStatus = "idle", !.isInvalidated = FALSE]
                      ELSE [query EXCEPT !.status = "error", !.fetchStatus = "idle"],
                p |-> [probes EXCEPT !.cur = NoRequest],
                l |-> FetchEnded(login)]
       IN /\ flag' = f
          /\ enabled' = f
          /\ Install(Rerendered(settled, f))
    /\ ev' = [Ev("probeSettled", TRUE, probes.cur.resp) EXCEPT !.prev = query.data]
    /\ header' = IF header = "refetching" THEN "completed" ELSE header
    /\ UNCHANGED <<account, session, path, logout, profile, loggedOut, otp, api, pwd>>

\* the response of a cancelled fetch arrives: queryFn continues, the result is dropped
CancelledProbeArrives(unauthorized) ==
    /\ IF unauthorized THEN probes.r401 > 0 ELSE probes.done > 0
    /\ probes' = IF unauthorized THEN [probes EXCEPT !.r401 = @ - 1]
                 ELSE [probes EXCEPT !.done = @ - 1]
    /\ flag' = IF unauthorized /\ queryFn(Unauthorized).removesFlag THEN FALSE ELSE flag
    /\ ev' = IF unauthorized
             THEN [Ev("probeSettled", FALSE, Unauthorized) EXCEPT !.prev = query.data]
             ELSE Quiet
    /\ UNCHANGED <<account, query, enabled, session, path, login, logout, profile, loggedOut, otp, api, pwd, header>>

(***************************************************************************)
(* Login (Login.handleSubmit, useLogin)                                    *)
(***************************************************************************)
\* submit of the login form; an invalid form returns early
LoginSubmit(valid) ==
    /\ Screen = Element("Login")
    /\ login.pc = "idle"
    /\ login' = IF valid THEN [pc |-> "sent"] ELSE login
    /\ ev' = Quiet
    /\ UNCHANGED <<account, flag, query, enabled, probes, session, path, logout, profile, loggedOut, otp, api, pwd, header>>

\* POST /api/auth/login at the server: the credentials are accepted or rejected
ServerAnswersLogin(accept) ==
    /\ login.pc = "sent"
    /\ session' = IF accept THEN account ELSE session
    /\ login' = [login EXCEPT !.pc = IF accept THEN "ok" ELSE "fail"]
    /\ ev' = Quiet
    /\ loggedOut' = (loggedOut /\ ~accept)
    /\ header' = IF accept THEN "idle" ELSE header
    /\ UNCHANGED <<account, flag, query, enabled, probes, path, logout, profile, otp, api, pwd>>

\* useLogin.onSuccess, then handleSubmit up to `await fetchUser()`
LoginSucceeds ==
    /\ login.pc = "ok"
    /\ LET s == refetch(invalidateQueries(Cur, enabled)) IN
       /\ InFlight(s.p) <= MaxInFlight
       /\ query' = s.q
       /\ probes' = s.p
    /\ flag' = TRUE
    /\ login' = [login EXCEPT !.pc = "awaitFetch"]
    /\ ev' = Ev("loginSucceeded", FALSE, NoResponse)
    /\ UNCHANGED <<account, enabled, session, path, logout, profile, loggedOut, otp, api, pwd, header>>

\* a catch branch that clears the local session, as the error handler of the
\* logout does
LoginFails_ClearsSession ==
    /\ login.pc = "fail"
    /\ login' = IdleHandler
    /\ flag' = FALSE
    /\ query' = setQueryData(Cur, Null).q
    /\ ev' = Ev("loginFailed", FALSE, NoResponse)
    /\ UNCHANGED <<account, enabled, probes, session, path, logout, profile, loggedOut, otp, api, pwd, header>>

\* the catch branch of handleSubmit
LoginFails ==
    /\ login.pc = "fail"
    /\ login' = IdleHandler
    /\ ev' = Ev("loginFailed", FALSE, NoResponse)
    /\ UNCHANGED <<account, flag, query, enabled, probes, session, path, logout, profile, loggedOut, otp, api, pwd, header>>

\* handleSubmit after `await fetchUser()`
LoginNavigates ==
    /\ login.pc = "fetched"
    /\ login' = IdleHandler
    /\ path' = "/dashboard"
    /\ ev' = Quiet
    /\ UNCHANGED <<account, flag, query, enabled, probes, session, logout, profile, loggedOut, otp, api, pwd, header>>

(***************************************************************************)
(* Logout (Header.handleLogout, useLogout)                                 *)
(***************************************************************************)
\* the Header is rendered only when isLoggedIn
LogoutClick ==
    /\ IsLoggedIn(query.data)
    /\ logout = "idle"
    /\ logout' = "sent"
    /\ ev' = Quiet
    /\ UNCHANGED <<account, flag, query, enabled, probes, session, path, login, profile, loggedOut, otp, api, pwd, header>>

\* POST /api/auth/logout at the server; the request may fail before or after
\* the session is dropped
ServerAnswersLogout(accept, dropped) ==
    /\ logout = "sent"
    /\ accept => dropped
    /\ session' = IF dropped THEN NoSession ELSE session
    /\ logout' = IF accept THEN "ok" ELSE "fail"
    /\ ev' = Quiet
    /\ UNCHANGED <<account, flag, query, enabled, probes, path, login, profile, loggedOut, otp, api, pwd, header>>

\* useLogout.onSuccess, then the finally block of handleLogout, then the render
\* of the cleared user
LogoutSucceeds ==
    /\ logout = "ok"
    /\ LET s == refetch(invalidateQueries(setQueryData(Cur, Null), enabled)) IN
       /\ InFlight(s.p) <= MaxInFlight
       /\ Install(s)
    /\ flag' = FALSE
    /\ logout' = "idle"
    /\ enabled' = FALSE
    /\ ev' = Ev("logoutSucceeded", FALSE, NoResponse)
    /\ loggedOut' = (session = NoSession)
    /\ header' = "refetching"
    /\ UNCHANGED <<account, session, path, profile, otp, api, pwd>>

\* useLogout.onError, then the catch and finally blocks of handleLogout
LogoutFails ==
    /\ logout = "fail"
    /\ LET s == refetch(setQueryData(Cur, Null)) IN
       /\ InFlight(s.p) <= MaxInFlight
       /\ Install(s)
    /\ flag' = FALSE
    /\ logout' = "idle"
    /\ enabled' = FALSE
    /\ ev' = [Ev("logoutFailed", FALSE, NoResponse) EXCEPT !.prev = query.data]
    /\ header' = "refetching"
    /\ UNCHANGED <<account, session, path, profile, loggedOut, otp, api, pwd>>

(***************************************************************************)
(* Profile update (Profile.handleSaveProfile, useUpdateProfile)            *)
(***************************************************************************)
ProfileSave ==
    /\ IsLoggedIn(query.data)
    /\ profile.pc = "idle"
    /\ profile' = [pc |-> "sent"]
    /\ ev' = Quiet
    /\ UNCHANGED <<account, flag, query, enabled, probes, session, path, login, logout, loggedOut, otp, api, pwd, header>>

\* PUT /api/users/profile/{id} at the server: needs the session, answers the
\* updated user
ServerAnswersProfile ==
    /\ profile.pc = "sent"
    /\ profile' = [pc |-> IF session = NoSession THEN "fail" ELSE "ok"]
    /\ ev' = Quiet
    /\ UNCHANGED <<account, flag, query, enabled, probes, session, path, login, logout, loggedOut, otp, api, pwd, header>>

\* useUpdateProfile.onSuccess, then the render of the updated user
ProfileSucceeds ==
    /\ profile.pc = "ok"
    /\ LET s == Rerendered(invalidateQueries(setQueryData(Cur, account), enabled), flag) IN
       /\ InFlight(s.p) <= MaxInFlight
       /\ Install(s)
    /\ enabled' = flag
    /\ profile' = IdleHandler
    /\ ev' = Ev("profileSucceeded", FALSE, NoResponse)
    /\ UNCHANGED <<account, flag, session, path, logout, loggedOut, otp, api, pwd, header>>

ProfileFails ==
    /\ profile.pc = "fail"
    /\ profile' = IdleHandler
    /\ ev' = Quiet
    /\ UNCHANGED <<account, flag, query, enabled, probes, session, path, login, logout, loggedOut, otp, api, pwd, header>>

\* the server drops the session (expiry)
SessionExpires ==
    /\ session # NoSession
    /\ session' = NoSession
    /\ ev' = Quiet
    /\ UNCHANGED <<account, flag, query, enabled, probes, path, login, logout, profile, loggedOut, otp, api, pwd, header>>

Next ==
    \/ \E p \in Paths : PageLoad(p)
    \/ \E byTime \in BOOLEAN : Render(byTime)
    \/ FollowNavigate
    \/ \E fail \in BOOLEAN : ServerAnswersProbe(fail)
    \/ ServerAnswersCancelled
    \/ ProbeSettles
    \/ \E unauthorized \in BOOLEAN : CancelledProbeArrives(unauthorized)
    \/ \E valid \in BOOLEAN : LoginSubmit(valid)
    \/ \E accept \in BOOLEAN : ServerAnswersLogin(accept)
    \/ LoginSucceeds
    \/ LoginFails
    \/ LoginNavigates
    \/ LogoutClick
    \/ \E accept, dropped \in BOOLEAN : ServerAnswersLogout(accept, dropped)
    \/ LogoutSucceeds
    \/ LogoutFails
    \/ ProfileSave
    \/ ServerAnswersProfile
    \/ ProfileSucceeds
    \/ ProfileFails
    \/ SessionExpires

Spec == Init /\ [][Next]_vars

TypeOK ==
    /\ flag \in BOOLEAN
    /\ query.data \in {Undefined, Null} \cup Roles
    /\ query.status \in {"pending", "success", "error"}
    /\ query.fetchStatus \in {"idle", "fetching"}
    /\ (query.fetchStatus = "fetching") = (probes.cur.state # "none")
    /\ InFlight(probes) <= MaxInFlight
    /\ session \in Roles \cup {NoSession}
    /\ path \in Paths

(***************************************************************************)
(* OTP verification modal                                                  *)
(*   variant "pages":      Ui/Pages/Auth/OtpVerify (useOTPTimer), shown by *)
(*                         Ui/Pages/Auth/ForgetPasswordModal (step)        *)
(*   variant "components": Ui/Components/Auth/OtpVerify, shown by the      *)
(*                         ForgetPasswordModal with showOTPModal           *)
(***************************************************************************)
Variants == {"pages", "components"}

\* the email addresses typed into the forgot-password form
Emails == {"a@x.io", "b@x.io"}

\* a countdown that reaches zero one second early
Countdown_Early(prev) == IF prev <= 2 THEN 0 ELSE prev - 1

\* the updater of setTimeLeft in the interval callback of useOTPTimer
Countdown(prev) == IF prev <= 1 THEN 0 ELSE prev - 1

\* the interval callback of useOTPTimer: setIsExpired(true) inside the updater
ExpiresOnTick(prev) == prev <= 1

\* the interval callback of the components modal
Decrement(prev) == prev - 1

\* Expired: isExpired of useOTPTimer, timeLeft <= 0 in the components modal
Expired(o) == IF o.variant = "pages" THEN o.isExpired ELSE o.timeLeft <= 0

\* a cleanup that clears nothing
ClearInterval_Leaks(k) == k

\* `return () => clearInterval(timer)`: the cleanup of the countdown effect
ClearInterval(k) == IF k > 0 THEN k - 1 ELSE 0

\* an effect that sets up the interval whatever the time left
Rerun_Always(k, left) == ClearInterval(k) + 1

\* the countdown effect runs again after timeLeft changed to `left`: the cleanup of
\* the previous run, then a new interval unless the time is up
Rerun(k, left) == ClearInterval(k) + (IF left > 0 THEN 1 ELSE 0)

\* an unmount whose effects have no cleanup: the timers stay
Unmount_KeepsTimers(o, by) ==
    [o EXCEPT !.open = FALSE, !.closedBy = by, !.leftAtClose = o.timeLeft,
              !.verify = [@ EXCEPT !.mine = FALSE],
              !.modals = IF @ > 0 THEN @ - 1 ELSE 0]

\* unmount: the cleanups of the effects run (clearInterval, clearTimeout)
Unmount(o, by) ==
    [o EXCEPT !.open = FALSE, !.timeout = FALSE,
              !.intervals = IF o.timeLeft > 0 THEN ClearInterval(@) ELSE @,
              !.closedBy = by, !.leftAtClose = o.timeLeft,
              !.verify = [@ EXCEPT !.mine = FALSE],
              !.modals = IF @ > 0 THEN @ - 1 ELSE 0]

\* handleSubmit of the forgot-password form. The submit button is disabled while
\* a request runs. The step parent renders the form only when no modal is shown;
\* the showOTPModal parent keeps the form rendered under the modal.
ForgetSubmit(valid) ==
    /\ otp.location = "away"
    /\ otp.request = "idle"
    /\ otp.variant = "pages" => ~otp.open
    /\ otp.started < MaxChallenges
    /\ otp' = IF valid /\ otp.email \in Emails
              THEN [otp EXCEPT !.request = "sent"] ELSE otp
    /\ UNCHANGED <<authVars, ev, api, pwd>>

\* POST /api/auth/forget-password at the server
ServerAnswersForget(accept) ==
    /\ otp.request = "sent"
    /\ otp' = [otp EXCEPT !.request = IF accept THEN "ok" ELSE "fail"]
    /\ UNCHANGED <<authVars, ev, api, pwd>>

\* the error branch of handleSubmit: the message is shown, the form stays
ForgetFails ==
    /\ otp.request = "fail"
    /\ otp' = [otp EXCEPT !.request = "idle"]
    /\ UNCHANGED <<authVars, ev, api, pwd>>

\* a new OTP modal mounts: its state is initialised and the countdown effect starts
\* the interval. n is the duration (600 s and 300 s in the code; the countdown is
\* explored for 1..MaxSeconds)
Mount(o, n) ==
    [o EXCEPT !.open = TRUE, !.initialSeconds = n, !.timeLeft = n,
              !.isExpired = FALSE, !.timeout = FALSE, !.ticks = 0, !.notices = 0,
              !.navigated = FALSE, !.closedBy = "none", !.leftAtClose = 0,
              !.reset = FALSE, !.request = "idle", !.attempt = NoAttempt,
              !.intervals = IF n > 0 THEN 1 ELSE 0,
              !.modals = o.modals + 1, !.started = o.started + 1,
              !.overlap = o.overlap \/ o.modals > 0]

\* a parent that mounts a new modal at every success
OtpOpen_Always(n) ==
    /\ otp.request = "ok"
    /\ otp' = [Mount(otp, n) EXCEPT !.request = "idle"]
    /\ UNCHANGED <<authVars, ev, api, pwd>>

\* the success branch of handleSubmit: setStep("otp") / setShowOTPModal(true).
\* The modal mounts when none is shown; a modal already shown stays as it is.
OtpOpen(n) ==
    /\ otp.request = "ok"
    /\ otp' = [(IF otp.open THEN otp ELSE Mount(otp, n)) EXCEPT !.request = "idle"]
    /\ UNCHANGED <<authVars, ev, api, pwd>>

\* one firing of the one-second interval, with the re-render and effects it causes
OtpTick ==
    /\ otp.intervals > 0
    /\ IF otp.variant = "pages"
       THEN LET left == Countdown(otp.timeLeft)
                expired == otp.isExpired \/ ExpiresOnTick(otp.timeLeft) \/ left <= 0
                becomes == expired /\ ~otp.isExpired
            IN otp' = [otp EXCEPT !.timeLeft = left,
                                  !.isExpired = expired,
                                  !.intervals = Rerun(@, left),
                                  !.ticks = @ + 1,
                                  !.notices = @ + (IF becomes THEN 1 ELSE 0),
                                  !.timeout = IF becomes THEN TRUE ELSE @]
       ELSE LET left == Decrement(otp.timeLeft)
                ticked == [otp EXCEPT !.timeLeft = left, !.ticks = @ + 1,
                                      !.intervals = Rerun(@, left)] IN
            otp' = IF left <= 0
                   THEN Unmount([ticked EXCEPT !.notices = @ + 1], "expiry")
                   ELSE ticked
    /\ UNCHANGED <<authVars, ev, api, pwd>>

\* an expiry timeout that closes the modal and stays on the page
OtpExpiryTimeout_NoNavigate ==
    /\ otp.timeout
    /\ otp' = Unmount(otp, "expiry")
    /\ UNCHANGED <<authVars, ev, api, pwd>>

\* the 1500 ms timeout of the expiry effect: onClose(); navigate("/login")
OtpExpiryTimeout ==
    /\ otp.timeout
    /\ otp' = Unmount([otp EXCEPT !.navigated = TRUE], "expiry")
    /\ UNCHANGED <<authVars, ev, api, pwd>>

\* Cancel, Try again, the close button: onClose() and the parent unmounts the modal
OtpClose ==
    /\ otp.open
    /\ otp' = Unmount(otp, "user")
    /\ UNCHANGED <<authVars, ev, api, pwd>>

\* the checks of handleVerify before the request is sent
Codes == {"empty", "short", "six"}

\* checks that do not look at the countdown
MaySubmit_IgnoresExpiry(o, code) ==
    IF o.variant = "pages"
    THEN code = "six"
    ELSE code # "empty"

\* handleVerify sends the request when the code passes the checks
MaySubmit(o, code) ==
    IF o.variant = "pages"
    THEN code = "six" /\ ~o.isExpired
    ELSE code # "empty"

\* handleVerify: submit of the OTP form (the button is disabled while a request
\* runs; one verifyOtp request is followed at a time)
OtpVerify(code) ==
    /\ otp.open
    /\ otp.verify.pc = "idle"
    /\ LET called == [otp EXCEPT !.attempt = [made |-> TRUE, expired |-> Expired(otp),
                                              sent |-> MaySubmit(otp, code)]] IN
       otp' = IF MaySubmit(otp, code)
              THEN [called EXCEPT !.verify = [pc |-> "sent", mine |-> TRUE,
                                              email |-> otp.email]]
              ELSE called
    /\ UNCHANGED <<authVars, ev, api, pwd>>

\* POST /api/auth/verifyOtp at the server
ServerAnswersVerify(accept) ==
    /\ otp.verify.pc = "sent"
    /\ otp' = [otp EXCEPT !.verify.pc = IF accept THEN "ok" ELSE "fail",
                          !.verified = IF accept THEN @ \cup {otp.verify.email} ELSE @]
    /\ UNCHANGED <<authVars, ev, api, pwd>>

\* a navigation that carries the email the form holds now
ResetState_FormEmail(o) == o.email

\* navigate(redirectPath, { state: { email } }): the email of the closure of
\* handleVerify, the one the verifyOtp request was sent with
ResetState(o) == o.verify.email

\* the response arrives. pages: the callbacks given to mutate() run only while the
\* modal is mounted, onSuccess navigates to the reset page. components: the handler
\* continues after the await whether mounted or not: onClose(); navigate(...), and
\* the parent, with any request of its own, is left behind
OtpVerifySettles ==
    /\ otp.verify.pc \in {"ok", "fail"}
    /\ LET answered == [otp EXCEPT !.verify = NoVerify] IN
       otp' = IF otp.verify.pc = "fail" THEN answered
              ELSE IF otp.variant = "pages"
              THEN IF otp.verify.mine
                   THEN [Unmount(answered, "verified") EXCEPT
                             !.reset = TRUE, !.location = ResetState(otp)]
                   ELSE answered
              ELSE IF otp.open
                   THEN [Unmount(answered, "verified") EXCEPT
                             !.reset = TRUE, !.request = "idle",
                             !.location = ResetState(otp)]
                   ELSE [answered EXCEPT !.reset = TRUE, !.request = "idle",
                                         !.location = ResetState(otp)]
    /\ UNCHANGED <<authVars, ev, api, pwd>>

\* setEmail: the user types into the email field of the forgot-password form.
\* pages: the form is rendered only when no modal is shown and the field is
\* disabled while the request runs; components: the form stays under the modal
EmailChange(e) ==
    /\ otp.location = "away"
    /\ otp.variant = "pages" => (~otp.open /\ otp.request = "idle")
    /\ otp.email # e
    /\ otp' = [otp EXCEPT !.email = e]
    /\ UNCHANGED <<authVars, ev, api, pwd>>

\* a reset page that renders without an email
EmailGuard_Never(email) == FALSE

\* the effect of the reset page: `if (!email)` redirects to /login
EmailGuard(email) == email = Undefined

\* /reset-password is opened by its URL: the application loads, location.state is
\* undefined, the page mounts and its effect runs
VisitReset ==
    /\ otp.location = "away"
    /\ ~otp.open /\ otp.request = "idle" /\ otp.verify.pc = "idle"
    /\ otp.resetPc = "idle"
    /\ otp' = IF EmailGuard(Undefined)
              THEN [otp EXCEPT !.visited = TRUE, !.bounced = TRUE]
              ELSE [otp EXCEPT !.visited = TRUE, !.location = Undefined]
    /\ UNCHANGED <<authVars, ev, api, pwd>>

\* handleSubmit of the reset page: validateForm, then
\* resetPasswordMutation.mutate({ email, newPassword }); the button is disabled
\* while the request runs
ResetSubmit(valid) ==
    /\ otp.location # "away"
    /\ otp.resetPc = "idle"
    /\ otp' = IF valid
              THEN [otp EXCEPT !.resetPc = "sent",
                               !.resetSent = @ \cup {otp.location}]
              ELSE otp
    /\ UNCHANGED <<authVars, ev, api, pwd>>

\* POST /api/auth/reset-password at the server
ServerAnswersReset(accept) ==
    /\ otp.resetPc = "sent"
    /\ otp' = [otp EXCEPT !.resetPc = IF accept THEN "ok" ELSE "fail"]
    /\ UNCHANGED <<authVars, ev, api, pwd>>

\* the callbacks given to mutate() run while the reset page is mounted:
\* onSuccess navigates to /login, onError shows the message
ResetSettles ==
    /\ otp.resetPc \in {"ok", "fail"}
    /\ otp' = [otp EXCEPT !.resetPc = "idle",
                          !.location = IF otp.resetPc = "ok" THEN "away" ELSE @]
    /\ UNCHANGED <<authVars, ev, api, pwd>>

\* the "Back to login" link of the reset page
LeaveReset ==
    /\ otp.location # "away"
    /\ otp' = [otp EXCEPT !.location = "away"]
    /\ UNCHANGED <<authVars, ev, api, pwd>>

NextOtp ==
    \/ \E e \in Emails : EmailChange(e)
    \/ VisitReset
    \/ \E valid \in BOOLEAN : ResetSubmit(valid)
    \/ \E accept \in BOOLEAN : ServerAnswersReset(accept)
    \/ ResetSettles
    \/ LeaveReset
    \/ \E valid \in BOOLEAN : ForgetSubmit(valid)
    \/ \E accept \in BOOLEAN : ServerAnswersForget(accept)
    \/ ForgetFails
    \/ \E n \in 1..MaxSeconds : OtpOpen(n)
    \/ OtpTick
    \/ OtpExpiryTimeout
    \/ OtpClose
    \/ \E code \in Codes : OtpVerify(code)
    \/ \E accept \in BOOLEAN : ServerAnswersVerify(accept)
    \/ OtpVerifySettles

InitOtp ==
    /\ flag = FALSE
    /\ query = FreshQuery
    /\ enabled = FALSE
    /\ probes = NoProbes
    /\ account = "user"
    /\ session = NoSession
    /\ path = "/forget-password"
    /\ login = IdleHandler
    /\ logout = "idle"
    /\ profile = IdleHandler
    /\ ev = Quiet
    /\ loggedOut = FALSE
    /\ otp \in {NoOtp(v) : v \in Variants}
    /\ api = NoCall
    /\ pwd = NoPwd
    /\ header = "idle"

SpecOtp == InitOtp /\ [][NextOtp]_vars

\* the browser fires a timer that stays set: the interval and the expiry timeout
SpecOtpLive == SpecOtp /\ WF_vars(OtpTick) /\ WF_vars(OtpExpiryTimeout)


(***************************************************************************)
(* Form handlers and their requests (SpecApi): a handler calls a mutation  *)
(* (or useUser its query), TanStack Query runs the mutationFn, apiFetch    *)
(* sends the request, and the handler shows the outcome                    *)
(***************************************************************************)
\* `retry: 0` of defaultOptions.mutations; no mutation hook overrides it
MutationRetry == 0
\* `retry: false` of useUser
UserQueryRetry == 0

Mutations == {"signup", "login", "verifyOtp", "forgetPassword", "resetPassword",
              "changePassword", "updateProfile", "logout"}

\* the handlers, the mutation each calls and how the handler treats a failure:
\*   "catch":     `await mutateAsync()` in try/catch, the catch shows the message
\*   "callbacks": mutate(data, { onError }), onError shows the message; the
\*                callbacks given to mutate() do not run after the unmount
\*   "swallow":   `await onUpdateProfile()` / `await onChangePassword()` of the
\*                parent (which awaits mutateAsync and shows nothing) in a try
\*                whose catch is empty
\*   "fixed":     the catch shows a fixed text
CallSites ==
    { [site |-> "Login.handleSubmit", mutation |-> "login", style |-> "catch"],
      [site |-> "Register.handleRegister", mutation |-> "signup", style |-> "catch"],
      [site |-> "Register.handleVerifyOtp", mutation |-> "verifyOtp", style |-> "catch"],
      [site |-> "OTPVerifyModal.handleVerify", mutation |-> "verifyOtp", style |-> "callbacks"],
      [site |-> "ForgetPasswordModal.handleSubmit", mutation |-> "forgetPassword", style |-> "callbacks"],
      [site |-> "ResetPassword.handleSubmit", mutation |-> "resetPassword", style |-> "callbacks"],
      [site |-> "Profile.handleSaveProfile", mutation |-> "updateProfile", style |-> "catch"],
      [site |-> "Profile.handleChangePassword", mutation |-> "changePassword", style |-> "catch"],
      [site |-> "UserInfoSection.handleSaveProfile", mutation |-> "updateProfile", style |-> "swallow"],
      [site |-> "PasswordChangeModal.handleSubmit", mutation |-> "changePassword", style |-> "swallow"],
      [site |-> "Header.handleLogout", mutation |-> "logout", style |-> "fixed"],
      [site |-> "useUser", mutation |-> "none", style |-> "query"] }

Site(name) == CHOOSE c \in CallSites : c.site = name

Endpoint(mutation) ==
    CASE mutation = "signup" -> "/api/auth/signup"
      [] mutation = "login" -> "/api/auth/login"
      [] mutation = "verifyOtp" -> "/api/auth/verifyOtp"
      [] mutation = "forgetPassword" -> "/api/auth/forget-password"
      [] mutation = "resetPassword" -> "/api/auth/reset-password"
      [] mutation = "changePassword" -> "/api/auth/change-password"
      [] mutation = "updateProfile" -> "/api/users/profile/{id}"
      [] mutation = "logout" -> "/api/auth/logout"
      [] OTHER -> UserEndpoint

Statuses == {200, 400, 401, 403, 404, 409, 500}
Bodies == {"json", "noMessage", "notJson"}
NetworkFailure == [Response(0, "none", "none") EXCEPT !.body = "network"]
\* what may come back for a request to the endpoint
Responses(endpoint) ==
    { [Response(st, IF endpoint = UserEndpoint /\ st = 200 THEN "user" ELSE "none",
                "Message of the server") EXCEPT !.body = b] :
          st \in Statuses, b \in Bodies } \cup {NetworkFailure}

AllResponses == UNION {Responses(Endpoint(c.mutation)) : c \in CallSites}

\* the retryer retries while this holds
ShouldRetry_Once(failureCount, retry) == failureCount < retry + 1

\* the condition under which the retryer of TanStack Query runs the function again
ShouldRetry(failureCount, retry) == failureCount < retry

Retry(c) == IF c.style = "query" THEN UserQueryRetry ELSE MutationRetry

\* `err.message || fallback`
OrFallback(message, fallback) == IF message = "" THEN fallback ELSE message

\* what the handler shows the user for a failure with this message
Shown(c, message, mounted) ==
    CASE c.style = "catch" -> OrFallback(message, "Request failed")
      [] c.style = "callbacks" ->
             IF mounted THEN OrFallback(message, "Request failed") ELSE "none"
      [] c.style = "fixed" -> "Failed to logout. Please try again."
      [] OTHER -> "none"

\* a handler is called (its button is disabled while its request runs)
ApiCall(c) ==
    /\ api.pc \in {"idle", "done"}
    /\ api' = [NoCall EXCEPT !.site = c.site, !.pc = "sent", !.requests = 1,
                             !.mounted = TRUE]
    /\ UNCHANGED <<authVars, ev, otp, pwd>>

\* the component of the handler unmounts while the request runs
ApiUnmount ==
    /\ api.pc \in {"sent", "answered"}
    /\ api.mounted
    /\ api' = [api EXCEPT !.mounted = FALSE]
    /\ UNCHANGED <<authVars, ev, otp, pwd>>

ApiServerAnswers(response) ==
    /\ api.pc = "sent"
    /\ response \in Responses(Endpoint(Site(api.site).mutation))
    /\ api' = [api EXCEPT !.pc = "answered", !.resp = response]
    /\ UNCHANGED <<authVars, ev, otp, pwd>>

\* apiFetch settles; the retryer runs the function again or settles the mutation
ApiSettles ==
    /\ api.pc = "answered"
    /\ LET c == Site(api.site)
           r == apiFetch(Endpoint(c.mutation), api.resp)
       IN api' = IF r.kind = "reject" /\ ShouldRetry(api.failureCount, Retry(c))
                 THEN [api EXCEPT !.pc = "sent", !.requests = @ + 1,
                                  !.failureCount = @ + 1]
                 ELSE [api EXCEPT !.pc = IF r.kind = "reject" THEN "failed"
                                         ELSE "succeeded",
                                  !.result = r]
    /\ UNCHANGED <<authVars, ev, otp, pwd>>

\* the handler continues after the mutation settled
ApiHandler ==
    /\ api.pc \in {"failed", "succeeded"}
    /\ api' = [api EXCEPT !.pc = "done",
                          !.shown = IF api.pc = "failed"
                                    THEN Shown(Site(api.site), api.result.value, api.mounted)
                                    ELSE "none"]
    /\ UNCHANGED <<authVars, ev, otp, pwd>>

NextApi ==
    \/ \E c \in CallSites : ApiCall(c)
    \/ ApiUnmount
    \/ \E response \in AllResponses : ApiServerAnswers(response)
    \/ ApiSettles
    \/ ApiHandler

InitApi ==
    /\ flag = FALSE
    /\ query = FreshQuery
    /\ enabled = FALSE
    /\ probes = NoProbes
    /\ account = "user"
    /\ session = NoSession
    /\ path = "/"
    /\ login = IdleHandler
    /\ logout = "idle"
    /\ profile = IdleHandler
    /\ ev = Quiet
    /\ loggedOut = FALSE
    /\ otp = NoOtp("pages")
    /\ api = NoCall
    /\ pwd = NoPwd
    /\ header = "idle"

SpecApi == InitApi /\ [][NextApi]_vars

(***************************************************************************)
(* Change password                                                         *)
(*   variant "modal":   PasswordChangeModal.handleSubmit, which calls      *)
(*                      Profile.handleChangePassword(data)                 *)
(*   variant "profile": the dialog of Profile with handleChangePassword    *)
(* A password is the sequence of its characters.                           *)
(***************************************************************************)
PwdVariants == {"modal", "profile"}

\* characters by the class the patterns of PASSWORD_REQUIREMENTS put them in;
\* the space is in none of the classes
Letters == {"a", "B"}
Digits == {"1"}
Specials == {"!"}

\* /.{8,}/ and `length >= 8`
MinLength == 8

PASSWORD_REQUIREMENTS == {"length", "letter", "number", "special"}

\* req.pattern.test(password)
Met(key, password) ==
    CASE key = "length"  -> Len(password) >= MinLength
      [] key = "letter"  -> \E i \in 1..Len(password) : password[i] \in Letters
      [] key = "number"  -> \E i \in 1..Len(password) : password[i] \in Digits
      [] key = "special" -> \E i \in 1..Len(password) : password[i] \in Specials

\* results.every((r) => r.met), and the four tests of PasswordChangeModal
isNewPasswordValid(password) == \A key \in PASSWORD_REQUIREMENTS : Met(key, password)

\* n times the character c
Rep(c, n) == [i \in 1..n |-> c]

\* the passwords typed: empty, short, long with one, two and three of the
\* character classes, short with all classes, long with spaces
Passwords ==
    { <<>>, Rep("a", 3), Rep("a", 8), Rep("a", 7) \o <<"1">>, Rep("a", 7) \o <<"!">>,
      Rep("1", 7) \o <<"!">>, Rep("a", 6) \o <<"1", "!">>, <<"a", "1", "!">>,
      Rep(" ", 5) \o <<"B", "1", "!">> }

\* the checks before the request: all fields filled and the new password equal to
\* its confirmation; Profile.handleChangePassword also requires isNewPasswordValid,
\* PasswordChangeModal.handleSubmit leaves the strength to the indicator
MayChange(variant, data) ==
    /\ data.currentPassword # <<>> /\ data.newPassword # <<>>
    /\ data.confirmPassword # <<>>
    /\ data.newPassword = data.confirmPassword
    /\ variant = "profile" => isNewPasswordValid(data.newPassword)

\* handleSubmit / handleChangePassword: the Change Password button, disabled
\* while the request runs
ChangeSubmit ==
    /\ pwd.open /\ pwd.pc = "idle"
    /\ pwd.requests < MaxChanges
    /\ pwd' = IF MayChange(pwd.variant, pwd.passwordData)
              THEN [pwd EXCEPT !.pc = "sent", !.requests = @ + 1,
                               !.body = pwd.passwordData]
              ELSE pwd
    /\ UNCHANGED <<authVars, ev, otp, api>>

\* PUT /api/auth/change-password at the server
ServerAnswersChange(accept) ==
    /\ pwd.pc = "sent"
    /\ pwd' = [pwd EXCEPT !.pc = IF accept THEN "ok" ELSE "fail"]
    /\ UNCHANGED <<authVars, ev, otp, api>>

\* after the await: the dialog closes and the fields are cleared on success, the
\* dialog stays as it is on failure
ChangeSettles ==
    /\ pwd.pc \in {"ok", "fail"}
    /\ pwd' = IF pwd.pc = "ok"
              THEN [pwd EXCEPT !.pc = "idle", !.open = FALSE, !.passwordData = NoFields]
              ELSE [pwd EXCEPT !.pc = "idle"]
    /\ UNCHANGED <<authVars, ev, otp, api>>

\* Cancel: setIsOpen(false)
ChangeCancel ==
    /\ pwd.open /\ pwd.pc = "idle"
    /\ pwd' = [pwd EXCEPT !.open = FALSE]
    /\ UNCHANGED <<authVars, ev, otp, api>>

NextPwd ==
    \/ ChangeSubmit
    \/ \E accept \in BOOLEAN : ServerAnswersChange(accept)
    \/ ChangeSettles
    \/ ChangeCancel

\* the dialog is open and the user has typed the three fields
InitPwd ==
    /\ flag = TRUE
    /\ query = [FreshQuery EXCEPT !.data = "user", !.status = "success"]
    /\ enabled = TRUE
    /\ probes = NoProbes
    /\ account = "user"
    /\ session = "user"
    /\ path = "/dashboard/auth/user"
    /\ login = IdleHandler
    /\ logout = "idle"
    /\ profile = IdleHandler
    /\ ev = Quiet
    /\ loggedOut = FALSE
    /\ otp = NoOtp("pages")
    /\ api = NoCall
    /\ header = "idle"
    /\ \E v \in PwdVariants, c \in {<<>>, Rep("a", 3)}, n \in Passwords, k \in Passwords :
           pwd = [NoPwd EXCEPT !.variant = v, !.open = TRUE,
                               !.passwordData = [currentPassword |-> c, newPassword |-> n,
                                                 confirmPassword |-> k]]

SpecPwd == InitPwd /\ [][NextPwd]_vars

(***************************************************************************)
(* Properties                                                              *)
(***************************************************************************)
SettledProbe(st) == ev.type = "probeSettled" /\ ev.resp.status = st

\* C1: a 401 answer to the user probe is never an exception or an error state:
\* apiFetch resolves with null, and the query that was waiting for it ends
\* successful with data = null
C1_Probe401IsNoSession ==
    /\ apiFetch(UserEndpoint, Unauthorized) = [kind |-> "resolve", value |-> Null]
    /\ queryFn(Unauthorized).kind = "resolve"
    /\ (SettledProbe(401) /\ ev.cur) =>
           (query.status = "success" /\ query.data = Null)

C1_Witness == SettledProbe(401) /\ ev.cur /\ query.fetchStatus = "idle"

\* C2: ProtectedRoute renders its outlet only for a cached user whose role is the
\* required one or "admin"; a "user" session on the admin route is redirected away
C2_GuardRendersOnlyForRole ==
    /\ \A role \in {"user", "admin"} :
          ProtectedRoute(role, query, "Outlet").kind = "render" =>
              (IsLoggedIn(query.data) /\ (query.data = role \/ query.data = "admin"))
    /\ (path = "/dashboard/auth/admin" /\ query.data = "user") =>
           (Screen.kind = "redirect" /\ Screen.at # path)
    /\ Screen = Element("AdminDashboard") => query.data = "admin"

C2_Witness == path = "/dashboard/auth/admin" /\ query.data = "user"

C4_LogoutShowsLoggedOut ==
    /\ ev.type = "logoutSucceeded" => query.data = Null
    /\ loggedOut => ~IsLoggedIn(query.data)


\* C5: a countdown started at N > 0 and left undisturbed is Expired exactly when
\* N ticks have fired: not before, and at the N-th
C5_ExpiresAtNthTick ==
    (otp.initialSeconds > 0 /\ otp.closedBy \notin {"user", "verified"}) =>
        /\ otp.ticks <= otp.initialSeconds
        /\ Expired(otp) <=> otp.ticks = otp.initialSeconds

C5_Witness ==
    /\ otp.initialSeconds > 1
    /\ otp.closedBy \notin {"user", "verified"}
    /\ otp.ticks = otp.initialSeconds
    /\ Expired(otp)

\* C6: a modal closed by the user while its countdown is above zero has no timer
\* left: no tick, no expiry notice, no expiry navigation for that challenge
C6_CloseCancelsTimer ==
    (otp.closedBy = "user" /\ otp.leftAtClose > 0) =>
        /\ otp.intervals = 0 /\ ~otp.timeout
        /\ otp.timeLeft = otp.leftAtClose
        /\ otp.notices = 0
        /\ ~otp.navigated

C6_Witness ==
    otp.closedBy = "user" /\ otp.leftAtClose > 0 /\ otp.ticks > 0 /\ ~otp.open

\* C7: at most one request to the user probe endpoint is on the network
C7_OneProbeInFlight == InFlight(probes) <= 1

\* C8: ProtectedRoute with the probe settled and no cached user redirects to "/"
\* and does not render its outlet, for every required role
C8_NoSessionRedirectsHome ==
    /\ \A role \in {"user", "admin"} :
          (~isLoading(query) /\ ~IsLoggedIn(query.data)) =>
              ProtectedRoute(role, query, "Outlet") = Navigate("/")
    /\ (path \in {"/dashboard/auth/user", "/dashboard/auth/admin"}
        /\ ~isLoading(query) /\ ~IsLoggedIn(query.data)) => Screen = Navigate("/")

C8_Witness ==
    /\ path = "/dashboard/auth/admin"
    /\ query.status = "success" /\ query.fetchStatus = "idle"
    /\ query.data = Null

\* C9: the dashboard DashboardRedirect chooses for the role of the session
\* renders content for that session
C9_RedirectEndsOnRoleDashboard ==
    (IsLoggedIn(query.data) /\ ~isLoading(query) /\ DashboardRedirect(query) = Navigate(path))
        => Screen.kind = "render"

C11_MutationSuccessRefetches ==
    ev.type \in {"loginSucceeded", "logoutSucceeded", "profileSucceeded"} =>
        (query.isInvalidated /\ query.fetchStatus = "fetching"
         /\ probes.cur.state = "sent")

C14_MutationSendsOneRequest ==
    (api.site # "none" /\ Site(api.site).mutation \in Mutations) =>
        (api.requests = 1 /\ api.failureCount = 0)

C14_Witness ==
    /\ api.pc = "failed" /\ api.resp.status = 500 /\ api.requests = 1
    /\ Site(api.site).mutation = "login"

\* the response the settled call got was an error other than the 401 of the probe
FailedResponse ==
    /\ api.pc \in {"failed", "succeeded", "done"}
    /\ api.resp.body # "network"
    /\ ~(api.resp.status >= 200 /\ api.resp.status <= 299)
    /\ ~(Site(api.site).style = "query" /\ api.resp.status = 401)

C16_FailureIsShown ==
    (api.pc = "done" /\ api.result.kind = "reject"
     /\ Site(api.site).mutation \in Mutations \ {"logout"}) => api.shown # "none"

\* C17 as stated: every load of the application has issued a request to the
\* current-user endpoint
C17_LoadIssuesProbe ==
    ev.type = "pageLoad" => (query.fetchStatus = "fetching" /\ probes.cur.state = "sent")

\* C17, amended: a load of the application has issued the request exactly when
\* the localStorage flag isLoggedIn is set; without the flag no request is sent
\* (and a session the server still holds is not discovered)
C17_LoadIssuesProbeWhenFlagged ==
    ev.type = "pageLoad" =>
        /\ (query.fetchStatus = "fetching" /\ probes.cur.state = "sent") <=> flag
        /\ InFlight(probes) = IF flag THEN 1 ELSE 0

\* a load with the flag set, while the server holds a session
C17_Witness ==
    ev.type = "pageLoad" /\ flag /\ session # NoSession /\ probes.cur.state = "sent"

\* this step has put a new request to the current-user endpoint on the network
ProbeIssued ==
    \/ InFlight(probes') > InFlight(probes)
    \/ ev'.type = "pageLoad" /\ probes'.cur.state = "sent"

\* C18: no step issues a request to /api/auth/user while the flag is absent
C18_NoProbeWithoutFlag == [][ProbeIssued => flag']_vars

\* C20: when the error handler of the logout mutation has run, the flag is absent
\* and the cached user is null
C20_FailedLogoutClearsLocalState ==
    ev.type = "logoutFailed" => (~flag /\ query.data = Null /\ query.status = "success")

\* the logout failed while the server still holds the session
C20_Witness == ev.type = "logoutFailed" /\ session # NoSession /\ IsLoggedIn(ev.prev)

\* C19: an open modal has at most one interval (exactly one while time is left),
\* and a modal that is unmounted, by close, expiry or verification, has no
\* interval and no expiry timeout left
C19_TimersClearedOnTeardown ==
    /\ otp.intervals <= 1
    /\ (otp.open /\ otp.timeLeft > 0) => otp.intervals = 1
    /\ ~otp.open => (otp.intervals = 0 /\ ~otp.timeout)

\* the modal was unmounted by a successful verification after some ticks
C19_Witness ==
    ~otp.open /\ otp.closedBy = "verified" /\ otp.ticks > 1 /\ otp.leftAtClose > 0

\* C21: a call of handleVerify made while the countdown of the challenge is
\* Expired has sent no verifyOtp request, whatever code was submitted
C21_NoVerifyAfterExpiry ==
    (otp.attempt.made /\ otp.attempt.expired) =>
        (~otp.attempt.sent /\ (otp.open => otp.verify.pc = "idle"))

\* a submit was made in the modal after its countdown had expired
C21_Witness ==
    /\ otp.open /\ otp.variant = "pages" /\ Expired(otp) /\ otp.timeout
    /\ otp.attempt.made /\ otp.attempt.expired

C23_ChangeSentOnlyForStrongPassword ==
    pwd.requests > 0 =>
        /\ isNewPasswordValid(pwd.body.newPassword)
        /\ pwd.body.newPassword = pwd.body.confirmPassword
        /\ pwd.body.currentPassword # <<>>

\* C24: for the session the cache holds and every start route, the chain of
\* redirects reaches a route that renders content; a chain longer than the number
\* of routes has run into a cycle
C24_RedirectsTerminate ==
    ~isLoading(query) => \A p \in Paths : RedirectsEnd(p, query, Cardinality(Paths))

\* C25: once handleLogout has completed (the logout request was answered and the
\* refetch of the finally block has settled) the cache holds no user, in every
\* state up to the next login the server accepts
C25_LoggedOutUntilNextLogin == header = "completed" => ~IsLoggedIn(query.data)

\* C26: when no login, no logout and no request to the current-user endpoint is
\* in progress, a user in the cache implies that the flag isLoggedIn is set
C26_CachedUserImpliesFlag ==
    (login.pc = "idle" /\ logout = "idle" /\ probes = NoProbes
     /\ query.fetchStatus = "idle" /\ IsLoggedIn(query.data)) => flag

\* this step is the rejection of a login request or the catch branch that
\* handles it
FailedLoginStep ==
    \/ login.pc = "sent" /\ login'.pc = "fail"
    \/ ev'.type = "loginFailed"

\* C27: the steps of a failed login leave the flag and the cached user as they
\* were, invalidate and fetch nothing, and do not navigate
C27_FailedLoginChangesNothing ==
    [][FailedLoginStep =>
          (flag' = flag /\ query' = query /\ probes' = probes /\ path' = path
           /\ enabled' = enabled)]_vars

\* a login has failed while the flag of an earlier session was set and the probe
\* of the page load was in flight
C27_Witness ==
    /\ ev.type = "loginFailed" /\ flag /\ probes.cur.state = "sent"
    /\ query.fetchStatus = "fetching" /\ path = "/"

\* the state of useOTPTimer in the mounted modal: timeLeft within 0..N, and
\* isExpired exactly when timeLeft is 0, with no interval left then
TimerInRange ==
    (otp.open /\ otp.variant = "pages" /\ otp.initialSeconds > 0) =>
        /\ 0 <= otp.timeLeft /\ otp.timeLeft <= otp.initialSeconds
        /\ otp.isExpired <=> otp.timeLeft = 0
        /\ otp.isExpired => otp.intervals = 0

\* a step of the mounted modal: timeLeft does not increase, and an Expired timer
\* stays Expired and sets up no interval
TimerStep ==
    (otp.open /\ otp'.open /\ otp'.started = otp.started /\ otp.variant = "pages") =>
        /\ otp'.timeLeft <= otp.timeLeft
        /\ otp.isExpired => (otp'.isExpired /\ otp'.intervals = 0)

\* C28: for useOTPTimer started at N > 0, always 0 <= timeLeft <= N and isExpired
\* exactly when timeLeft = 0; timeLeft never increases from one tick to the next,
\* and an Expired timer never becomes active again (resetTimer has no caller)
C28_TimerCountsDownOnce == []TimerInRange /\ [][TimerStep]_vars

\* a countdown of more than one second has run to its end in the mounted modal
C28_Witness ==
    /\ otp.open /\ otp.variant = "pages" /\ otp.initialSeconds > 1
    /\ otp.ticks = otp.initialSeconds /\ otp.timeLeft = 0 /\ otp.isExpired
    /\ otp.intervals = 0

=============================================================================
